---------------------------- MODULE Spec2Model ----------------------------
(***************************************************************************)
(* A model of generate.py, the did:web document generator.                 *)
(*                                                                         *)
(* Python values are represented as follows:                               *)
(*   str        a TLA+ string (Len, \o, Head, Tail, SubSeq act on it)       *)
(*   bytes      a sequence of numbers in 0..255                            *)
(*   int        an integer; coordinates are kept below 2^31                 *)
(*   dict       a record; the key "@context" is the field `context`        *)
(*   a file     NoFile, or its content                                     *)
(* The `cryptography` library, hashlib and git are outside the repository; *)
(* they are stood in for by small functions with the same interface        *)
(* (a toy curve, a toy digest, one tracked file per folder).               *)
(***************************************************************************)
EXTENDS Integers, Sequences, FiniteSets, TLC

(***************************************************************************)
(* Bounds of the model.                                                    *)
(***************************************************************************)
\* number of sequential runs of the script in one behaviour of Spec
MaxRuns == 2
\* number of distinct private values ec.generate_private_key can draw
MaxGenKeys == 2
\* a failed json.dump leaves 0..MaxPartialLines lines of the document
MaxPartialLines == 1

(***************************************************************************)
(* Configuration constants (generate.py lines 22-35).                      *)
(***************************************************************************)
DEFAULT_EC_CURVE == 384

EC_CURVE_NAMES == (256 :> "P-256") @@ (384 :> "P-384") @@ (521 :> "P-521")

SIGNING_ALGORITHMS == (256 :> "ES256") @@ (384 :> "ES384") @@ (521 :> "ES512")

(***************************************************************************)
(* Exceptions: a call returns its value or Raise(e).                       *)
(***************************************************************************)
Raise(e) == [exc |-> e]

IsExc(r) == DOMAIN r = {"exc"}

(***************************************************************************)
(* int.to_bytes(length, "big") and base64.urlsafe_b64encode.               *)
(***************************************************************************)
RECURSIVE ByteLen(_)
ByteLen(v) == IF v = 0 THEN 0 ELSE 1 + ByteLen(v \div 256)

\* v >> (8 * k)
RECURSIVE ShiftRight(_, _)
ShiftRight(v, k) == IF v = 0 \/ k = 0 THEN v ELSE ShiftRight(v \div 256, k - 1)

\* the `length` bytes of v, most significant first
BigEndian(v, length) == [i \in 1..length |-> ShiftRight(v, length - i) % 256]

\* a variable-length encoding: as many bytes as v needs
to_bytes_minimal(v, length) == [bytes |-> BigEndian(v, ByteLen(v))]

\* int.to_bytes: OverflowError when v does not fit in `length` bytes
to_bytes(v, length) ==
    IF ByteLen(v) > length THEN Raise("OverflowError") ELSE [bytes |-> BigEndian(v, length)]

B64Alphabet == "ABCDEFGHIJKLMNOPQRSTUVWXYZabcdefghijklmnopqrstuvwxyz0123456789-_"

B64Char(n) == SubSeq(B64Alphabet, n + 1, n + 1)

\* the four characters of the group of up to three bytes that starts at i
B64Group(bs, i) ==
    IF i = Len(bs) THEN
        B64Char(bs[i] \div 4) \o B64Char((bs[i] % 4) * 16) \o "=="
    ELSE IF i + 1 = Len(bs) THEN
        B64Char(bs[i] \div 4) \o B64Char((bs[i] % 4) * 16 + bs[i + 1] \div 16)
            \o B64Char((bs[i + 1] % 16) * 4) \o "="
    ELSE
        B64Char(bs[i] \div 4) \o B64Char((bs[i] % 4) * 16 + bs[i + 1] \div 16)
            \o B64Char((bs[i + 1] % 16) * 4 + bs[i + 2] \div 64) \o B64Char(bs[i + 2] % 64)

\* the encoding of groups lo..hi
RECURSIVE B64Groups(_, _, _)
B64Groups(bs, lo, hi) ==
    IF lo > hi THEN ""
    ELSE IF lo = hi THEN B64Group(bs, 3 * lo - 2)
    ELSE B64Groups(bs, lo, (lo + hi) \div 2) \o B64Groups(bs, (lo + hi) \div 2 + 1, hi)

urlsafe_b64encode(bs) == B64Groups(bs, 1, (Len(bs) + 2) \div 3)

(***************************************************************************)
(* convert_key_to_jwk (lines 44-69).  A public key is                      *)
(* [kty, key_size, x, y]; `options` is the record of keyword arguments.    *)
(***************************************************************************)
\* the curve name looked up with a fallback instead of EC_CURVE_NAMES[...]
convert_key_to_jwk_default(public_key, options) ==
    LET curve_size == public_key.key_size
        coordinate_size == (curve_size + 7) \div 8
        x_bytes == to_bytes(public_key.x, coordinate_size)
        y_bytes == to_bytes(public_key.y, coordinate_size)
    IN  IF IsExc(x_bytes) THEN x_bytes
        ELSE IF IsExc(y_bytes) THEN y_bytes
        ELSE options @@
             [kty |-> "EC",
              crv |-> IF curve_size \in DOMAIN EC_CURVE_NAMES
                      THEN EC_CURVE_NAMES[curve_size] ELSE "P-unknown",
              x   |-> urlsafe_b64encode(x_bytes.bytes),
              y   |-> urlsafe_b64encode(y_bytes.bytes)]

convert_key_to_jwk(public_key, options) ==
    LET curve_size == public_key.key_size
        coordinate_size == (curve_size + 7) \div 8
        x_bytes == to_bytes(public_key.x, coordinate_size)
        y_bytes == to_bytes(public_key.y, coordinate_size)
    IN  IF IsExc(x_bytes) THEN x_bytes
        ELSE IF IsExc(y_bytes) THEN y_bytes
        ELSE IF curve_size \notin DOMAIN EC_CURVE_NAMES THEN Raise("KeyError")
        ELSE options @@
             [kty |-> "EC",
              crv |-> EC_CURVE_NAMES[curve_size],
              x   |-> urlsafe_b64encode(x_bytes.bytes),
              y   |-> urlsafe_b64encode(y_bytes.bytes)]

(***************************************************************************)
(* generate_key_fingerprint (lines 72-86).                                 *)
(***************************************************************************)
\* the curve's identifier inside the SubjectPublicKeyInfo
CurveOid(key_size) == key_size % 256

\* public_key.public_bytes(DER, SubjectPublicKeyInfo): header, curve,
\* then the uncompressed point 04 || X || Y with field-size coordinates
public_bytes(public_key) ==
    LET n == (public_key.key_size + 7) \div 8
    IN  <<48, CurveOid(public_key.key_size), 4>>
            \o BigEndian(public_key.x, n) \o BigEndian(public_key.y, n)

HexDigits == "0123456789abcdef"

HexChar(n) == SubSeq(HexDigits, n + 1, n + 1)

\* length of hashlib.sha256(...).hexdigest()
DigestHexLen == 64

DigestModulus == 65521

\* a position-weighted sum of bytes lo..hi
RECURSIVE Absorb(_, _, _)
Absorb(bs, lo, hi) ==
    IF lo > hi THEN 0
    ELSE IF lo = hi THEN ((bs[lo] + 1) * (lo * lo + 7)) % DigestModulus
    ELSE (Absorb(bs, lo, (lo + hi) \div 2) + Absorb(bs, (lo + hi) \div 2 + 1, hi))
            % DigestModulus

\* hex digits lo..hi of the digest with state h
RECURSIVE Squeeze(_, _, _)
Squeeze(h, lo, hi) ==
    IF lo > hi THEN ""
    ELSE IF lo = hi THEN HexChar(((h + lo) * (lo + 3) + h \div (lo + 1)) % 16)
    ELSE Squeeze(h, lo, (lo + hi) \div 2) \o Squeeze(h, (lo + hi) \div 2 + 1, hi)

\* stand-in for hashlib.sha256(der_bytes).hexdigest(): a deterministic
\* digest of the bytes, DigestHexLen lowercase hex characters
sha256_hexdigest(bs) == Squeeze(Absorb(bs, 1, Len(bs)), 1, DigestHexLen)

generate_key_fingerprint(public_key) == sha256_hexdigest(public_bytes(public_key))

(***************************************************************************)
(* create_did_document (lines 182-210).                                    *)
(***************************************************************************)
\* the kid given to the JWK without the "#" of the id fragment
create_did_document_bare_kid(did, public_key) ==
    LET fingerprint == generate_key_fingerprint(public_key)
    IN  IF public_key.key_size \notin DOMAIN SIGNING_ALGORITHMS THEN Raise("KeyError")
        ELSE
          LET jwk == convert_key_to_jwk(public_key,
                        [kid |-> fingerprint,
                         alg |-> SIGNING_ALGORITHMS[public_key.key_size]])
          IN  IF IsExc(jwk) THEN jwk
              ELSE [id |-> did,
                    assertionMethod |->
                      << [context      |-> "https://www.w3.org/ns/did/v1",
                          id           |-> did \o "#" \o fingerprint,
                          type         |-> "JsonWebKey2020",
                          controller   |-> did,
                          publicKeyJwk |-> jwk] >>]

create_did_document(did, public_key) ==
    LET key_id == "#" \o generate_key_fingerprint(public_key)
    IN  IF public_key.key_size \notin DOMAIN SIGNING_ALGORITHMS THEN Raise("KeyError")
        ELSE
          LET jwk == convert_key_to_jwk(public_key,
                        [kid |-> key_id,
                         alg |-> SIGNING_ALGORITHMS[public_key.key_size]])
          IN  IF IsExc(jwk) THEN jwk
              ELSE [id |-> did,
                    assertionMethod |->
                      << [context      |-> "https://www.w3.org/ns/did/v1",
                          id           |-> did \o key_id,
                          type         |-> "JsonWebKey2020",
                          controller   |-> did,
                          publicKeyJwk |-> jwk] >>]

(***************************************************************************)
(* Keys of the `cryptography` library.  A private key is                   *)
(* [kty, key_size, d]; its public key is the point d*G of a toy curve.     *)
(***************************************************************************)
NoKey == [kty |-> "none", key_size |-> 0, d |-> 0]

\* curves the library can parse (secp224r1 is not in EC_CURVE_NAMES)
LibraryCurves == {224, 256, 384, 521}

PointX(key_size, d) == ((d % 4096) * 40503 + key_size) % 65536

PointY(key_size, d) == ((d % 4096) * 3 + 1) % 256

\* private_key.public_key() (line 273)
public_key_of(private_key) ==
    [kty      |-> private_key.kty,
     key_size |-> private_key.key_size,
     x        |-> PointX(private_key.key_size, private_key.d),
     y        |-> PointY(private_key.key_size, private_key.d)]

\* ec.generate_private_key(DEFAULT_EC_CURVE): the keys a call may return
GeneratedKeys == {[kty |-> "EC", key_size |-> DEFAULT_EC_CURVE, d |-> d] : d \in 1..MaxGenKeys}

(***************************************************************************)
(* PKCS8/PEM.  The file is a byte string: a BEGIN marker, the algorithm,   *)
(* the curve, the private value as field-size big-endian bytes, an END     *)
(* marker.                                                                 *)
(***************************************************************************)
PemBegin == 45

PemBeginEncrypted == 69

PemEnd == 10

AlgEC == 1

AlgRSA == 2

\* int.from_bytes(bs[lo..hi], "big")
RECURSIVE FromBigEndian(_, _, _)
FromBigEndian(bs, lo, hi) ==
    IF lo > hi THEN 0
    ELSE IF lo = hi THEN bs[lo]
    ELSE LET mid  == (lo + hi) \div 2
             high == FromBigEndian(bs, lo, mid)
             low  == FromBigEndian(bs, mid + 1, hi)
         IN  IF high = 0 THEN low ELSE high * 256 ^ (hi - mid) + low

\* the key written under a password, which load_pem_private_key(password=None)
\* cannot read back
private_bytes_encrypted(private_key) ==
    <<PemBeginEncrypted, AlgEC, CurveOid(private_key.key_size)>>
        \o BigEndian(private_key.d, (private_key.key_size + 7) \div 8)
        \o <<PemEnd>>

\* private_key.private_bytes(PEM, PKCS8, NoEncryption()) (lines 170-174)
private_bytes(private_key) ==
    IF private_key.kty = "EC"
    THEN <<PemBegin, AlgEC, CurveOid(private_key.key_size)>>
            \o BigEndian(private_key.d, (private_key.key_size + 7) \div 8)
            \o <<PemEnd>>
    ELSE <<PemBegin, AlgRSA>> \o BigEndian(private_key.d, 2) \o <<PemEnd>>

\* serialization.load_pem_private_key(data, password=None) (lines 155-158)
load_pem_private_key(data) ==
    IF Len(data) < 3 THEN Raise("ValueError")
    ELSE IF data[1] = PemBeginEncrypted THEN Raise("TypeError")
    ELSE IF data[1] # PemBegin \/ data[Len(data)] # PemEnd THEN Raise("ValueError")
    ELSE IF data[2] = AlgRSA THEN
        [kty |-> "RSA", key_size |-> 2048,
         d |-> FromBigEndian(data, 3, Len(data) - 1)]
    ELSE IF data[2] # AlgEC \/ Len(data) < 4 THEN Raise("ValueError")
    ELSE IF \A c \in LibraryCurves : CurveOid(c) # data[3] THEN Raise("ValueError")
    ELSE LET size == CHOOSE c \in LibraryCurves : CurveOid(c) = data[3]
             body == SubSeq(data, 4, Len(data) - 1)
         IN  IF Len(body) # (size + 7) \div 8 THEN Raise("ValueError")
             ELSE [kty |-> "EC", key_size |-> size, d |-> FromBigEndian(body, 1, Len(body))]

(***************************************************************************)
(* Files.                                                                  *)
(***************************************************************************)
NoFile == [exists |-> FALSE, data |-> <<>>]

File(data) == [exists |-> TRUE, data |-> data]

\* the sub-folders a run can work in; "" is the current directory
Folders == {"", "keys", ".did"}

(***************************************************************************)
(* is_valid_did_folder_name (lines 89-99):                                 *)
(* re.fullmatch(r'\.[a-zA-Z0-9_-]+|[a-zA-Z0-9_-]+', name).                 *)
(***************************************************************************)
WordAlphabet == "abcdefghijklmnopqrstuvwxyzABCDEFGHIJKLMNOPQRSTUVWXYZ0123456789_-"

WordChars == {SubSeq(WordAlphabet, i, i) : i \in 1..Len(WordAlphabet)}

\* [a-zA-Z0-9_-]+ matches the whole of s
AllWordChars(s) == Len(s) >= 1 /\ \A i \in 1..Len(s) : SubSeq(s, i, i) \in WordChars

\* re.match in place of re.fullmatch: a valid prefix is enough
is_valid_did_folder_name_prefix(name) ==
    \/ Len(name) >= 2 /\ Head(name) = "." /\ SubSeq(name, 2, 2) \in WordChars
    \/ Len(name) >= 1 /\ Head(name) \in WordChars

is_valid_did_folder_name(name) ==
    \/ Len(name) >= 1 /\ Head(name) = "." /\ AllWordChars(Tail(name))
    \/ AllWordChars(name)

\* arg.startswith(prefix) (line 255)
startswith(s, prefix) == Len(s) >= Len(prefix) /\ SubSeq(s, 1, Len(prefix)) = prefix

(***************************************************************************)
(* infer_did_from_git (lines 102-139).  `git_remote` is what               *)
(* `git remote --verbose` gives: whether it succeeded, and the owner and   *)
(* repository of the first line the github pattern matches.                *)
(***************************************************************************)
NotARepository == [is_repo |-> FALSE, github |-> FALSE, owner |-> "", repo |-> ""]

NoGithubRemote == [is_repo |-> TRUE, github |-> FALSE, owner |-> "", repo |-> ""]

UserSite == [is_repo |-> TRUE, github |-> TRUE, owner |-> "alice", repo |-> "alice.github.io"]

ProjectSite == [is_repo |-> TRUE, github |-> TRUE, owner |-> "alice", repo |-> "site"]

Remotes == {NotARepository, NoGithubRemote, UserSite, ProjectSite}

infer_did_from_git(git_remote, did_folder) ==
    IF ~git_remote.is_repo
    THEN Raise("Could not get git remote information. Are you in a git repository?")
    ELSE IF ~git_remote.github
    THEN Raise("Could not infer a DID from the git configuration")
    ELSE LET suffix == IF did_folder # "" THEN ":" \o did_folder ELSE ""
         IN  IF git_remote.repo = git_remote.owner \o ".github.io"
             THEN [did |-> "did:web:" \o git_remote.owner \o ".github.io" \o suffix]
             ELSE [did |-> "did:web:" \o git_remote.owner \o ".github.io:"
                              \o git_remote.repo \o suffix]

(***************************************************************************)
(* json.dump(document, f, indent=2) (line 223): the lines written.         *)
(***************************************************************************)
NoDocument == [id |-> "", assertionMethod |-> <<>>]

JsonString(s) == "\"" \o s \o "\""

JsonDump(document) ==
    LET vm  == document.assertionMethod[1]
        jwk == vm.publicKeyJwk
    IN  << "{",
           "  \"id\": " \o JsonString(document.id) \o ",",
           "  \"assertionMethod\": [",
           "    {",
           "      \"@context\": " \o JsonString(vm.context) \o ",",
           "      \"id\": " \o JsonString(vm.id) \o ",",
           "      \"type\": " \o JsonString(vm.type) \o ",",
           "      \"controller\": " \o JsonString(vm.controller) \o ",",
           "      \"publicKeyJwk\": {",
           "        \"kty\": " \o JsonString(jwk.kty) \o ",",
           "        \"crv\": " \o JsonString(jwk.crv) \o ",",
           "        \"x\": " \o JsonString(jwk.x) \o ",",
           "        \"y\": " \o JsonString(jwk.y) \o ",",
           "        \"kid\": " \o JsonString(jwk.kid) \o ",",
           "        \"alg\": " \o JsonString(jwk.alg),
           "      }",
           "    }",
           "  ]",
           "}" >>

(***************************************************************************)
(* The state.                                                              *)
(***************************************************************************)
Procs == {1, 2}

VARIABLES
    git_remote,      \* the repository's remote configuration, or none
    command,         \* the arguments the script is run with in Spec
    keyfile,         \* folder -> the file <folder>/private_key.pem
    docfile,         \* folder -> the file <folder>/did.json
    dirs,            \* the sub-folders that exist
    head,            \* folder -> did.json as of the HEAD commit
    pc,              \* per run: where it is
    argv,            \* per run: sys.argv[1:]
    folder_name,     \* per run: main's folder_name
    did,             \* per run: main's did
    private_key,     \* per run: main's private_key
    document,        \* per run: main's document
    exit_status,     \* per run: -1 while running, then the exit status
    stderr,          \* per run: the diagnostics printed
    existed,         \* per run: what key_path.exists() returned
    events,          \* per run: the key and document steps taken so far
    keyWrites,       \* per run: calls of key_path.write_bytes
    committed,       \* per run: whether git commit ran
    headAtDiff,      \* per run: HEAD's did.json when git diff-index ran
    keyfileAtStart,  \* per run: keyfile when the run started
    docfileAtStart,  \* per run: docfile when the run started
    runNo,           \* per run: its number in the order of starts
    runs,            \* runs started so far
    keyChanges,      \* folder -> times the key file's content changed
    persisted,       \* folder -> the key a run generated and wrote, or NoKey
    persistedRun,    \* folder -> the number of the run that wrote it
    built,           \* [folder, did, document] of the runs that exited with 0
    lastWriter,      \* folder -> the run whose write_bytes reached the file last, or 0
    in_key,          \* a public key handed to the pure functions
    in_did,          \* a DID handed to create_did_document
    out_jwk,         \* what convert_key_to_jwk returned for it
    out_doc,         \* what create_did_document returned for it
    pure_pc          \* which of the two has been applied

envVars  == <<git_remote, command>>
fsVars   == <<keyfile, docfile, dirs>>
gitVars  == <<head>>
runVars  == <<argv, folder_name, did, private_key, document>>
endVars  == <<pc, exit_status, stderr>>
histVars == <<existed, events, keyWrites, committed, headAtDiff, keyfileAtStart,
              docfileAtStart, runNo, runs, keyChanges, persisted, persistedRun,
              built, lastWriter>>
pureVars == <<in_key, in_did, out_jwk, out_doc, pure_pc>>
vars     == <<envVars, fsVars, gitVars, runVars, endVars, histVars, pureVars>>

(***************************************************************************)
(* Inputs.                                                                 *)
(***************************************************************************)
\* sys.argv[1:] of a run
Argvs == { <<>>, <<"did:web:example.com">>, <<"keys">>, <<".did">>, <<"a/b">>, <<"..">>,
           <<"did:key:z6Mk">>, <<"keys", "extra">> }

\* key files found on disk before the first run
ExistingKeyFiles ==
    { NoFile,
      File(private_bytes([kty |-> "EC", key_size |-> 384, d |-> 7])),
      File(private_bytes([kty |-> "EC", key_size |-> 521, d |-> 70000])),
      File(private_bytes([kty |-> "EC", key_size |-> 224, d |-> 5])),
      File(private_bytes([kty |-> "RSA", key_size |-> 2048, d |-> 257])),
      File(<<PemBeginEncrypted, AlgEC, 0, PemEnd>>),
      File(<<1, 2, 3>>) }

\* a did.json left by an earlier version of the document
OldDocument == File(<<"{", "  \"id\": \"did:web:old.example\"", "}">>)

NoResult == Raise("not called")

PureIdle ==
    /\ in_key = [kty |-> "EC", key_size |-> 0, x |-> 0, y |-> 0]
    /\ in_did = ""
    /\ out_jwk = NoResult
    /\ out_doc = NoResult
    /\ pure_pc = "off"

RunsIdle ==
    /\ pc = [p \in Procs |-> "idle"]
    /\ argv = [p \in Procs |-> <<>>]
    /\ folder_name = [p \in Procs |-> ""]
    /\ did = [p \in Procs |-> ""]
    /\ private_key = [p \in Procs |-> NoKey]
    /\ document = [p \in Procs |-> NoDocument]
    /\ exit_status = [p \in Procs |-> -1]
    /\ stderr = [p \in Procs |-> <<>>]
    /\ existed = [p \in Procs |-> FALSE]
    /\ events = [p \in Procs |-> {}]
    /\ keyWrites = [p \in Procs |-> 0]
    /\ committed = [p \in Procs |-> FALSE]
    /\ headAtDiff = [p \in Procs |-> NoFile]
    /\ keyfileAtStart = [p \in Procs |-> keyfile]
    /\ docfileAtStart = [p \in Procs |-> docfile]
    /\ runNo = [p \in Procs |-> 0]
    /\ runs = 0
    /\ keyChanges = [f \in Folders |-> 0]
    /\ persisted = [f \in Folders |-> NoKey]
    /\ persistedRun = [f \in Folders |-> 0]
    /\ built = {}
    /\ lastWriter = [f \in Folders |-> 0]

\* the state before the first run: a working directory with or without a
\* key file, a did.json that is committed if it exists
Init ==
    /\ git_remote \in Remotes
    /\ command \in Argvs
    /\ \E k \in ExistingKeyFiles : keyfile = [f \in Folders |-> IF f = "" THEN k ELSE NoFile]
    /\ \E d \in {NoFile, OldDocument} :
          /\ docfile = [f \in Folders |-> IF f = "" THEN d ELSE NoFile]
          /\ head = [f \in Folders |-> IF f = "" /\ git_remote.is_repo THEN d ELSE NoFile]
    /\ dirs = {}
    /\ RunsIdle
    /\ PureIdle

(***************************************************************************)
(* die (lines 38-41) and the exits of a run.                               *)
(***************************************************************************)
Exit(p, status, messages) ==
    /\ pc' = [pc EXCEPT ![p] = "exited"]
    /\ exit_status' = [exit_status EXCEPT ![p] = status]
    /\ stderr' = [stderr EXCEPT ![p] = @ \o messages]

\* print(f"Error: {message}", file=sys.stderr); sys.exit(1)
die(p, message) == Exit(p, 1, <<"Error: " \o message>>)

\* an exception no handler catches: the interpreter prints the traceback
\* and exits with status 1
Uncaught(p, exc) == Exit(p, 1, <<"Traceback: " \o exc>>)

Goto(p, label) ==
    /\ pc' = [pc EXCEPT ![p] = label]
    /\ UNCHANGED <<exit_status, stderr>>

\* a bare `except:`, which catches SystemExit too
ExceptAnything(exc) == TRUE

\* `except Exception` (lines 162, 176, 242): sys.exit raises SystemExit,
\* which is a BaseException and no Exception
ExceptException(exc) == exc # "SystemExit"

(***************************************************************************)
(* main (lines 246-287), one action per step.                              *)
(***************************************************************************)
\* the script is started with arguments a
Start(p, a) ==
    /\ argv' = [argv EXCEPT ![p] = a]
    /\ folder_name' = [folder_name EXCEPT ![p] = ""]
    /\ did' = [did EXCEPT ![p] = ""]
    /\ private_key' = [private_key EXCEPT ![p] = NoKey]
    /\ document' = [document EXCEPT ![p] = NoDocument]
    /\ pc' = [pc EXCEPT ![p] = "main"]
    /\ exit_status' = [exit_status EXCEPT ![p] = -1]
    /\ stderr' = [stderr EXCEPT ![p] = <<>>]
    /\ existed' = [existed EXCEPT ![p] = FALSE]
    /\ events' = [events EXCEPT ![p] = {}]
    /\ keyWrites' = [keyWrites EXCEPT ![p] = 0]
    /\ committed' = [committed EXCEPT ![p] = FALSE]
    /\ headAtDiff' = [headAtDiff EXCEPT ![p] = NoFile]
    /\ keyfileAtStart' = [keyfileAtStart EXCEPT ![p] = keyfile]
    /\ docfileAtStart' = [docfileAtStart EXCEPT ![p] = docfile]
    /\ runs' = runs + 1
    /\ runNo' = [runNo EXCEPT ![p] = runs + 1]
    /\ UNCHANGED <<envVars, fsVars, gitVars, keyChanges, persisted, persistedRun,
                   built, lastWriter, pureVars>>

\* the next run of the command, once the one before has exited
SeqStart(p) ==
    /\ runs < MaxRuns
    /\ \A q \in Procs : pc[q] \in {"idle", "exited"}
    /\ Start(p, command)

\* lines 248-265: the arguments; infer_did_from_git reads the remotes
ParseArgs(p) ==
    /\ pc[p] = "main"
    /\ LET a == argv[p]
           arg == a[1]
           inferred == infer_did_from_git(git_remote, IF Len(a) = 1 THEN arg ELSE "")
       IN  IF Len(a) = 0 THEN
               IF IsExc(inferred)
               THEN die(p, inferred.exc) /\ UNCHANGED <<did, folder_name>>
               ELSE /\ did' = [did EXCEPT ![p] = inferred.did]
                    /\ Goto(p, "exists")
                    /\ UNCHANGED folder_name
           ELSE IF Len(a) = 1 THEN
               IF startswith(arg, "did:web:") THEN
                   /\ did' = [did EXCEPT ![p] = arg]
                   /\ Goto(p, "exists")
                   /\ UNCHANGED folder_name
               ELSE IF is_valid_did_folder_name(arg) THEN
                   /\ folder_name' = [folder_name EXCEPT ![p] = arg]
                   /\ IF IsExc(inferred)
                      THEN die(p, inferred.exc) /\ UNCHANGED did
                      ELSE /\ did' = [did EXCEPT ![p] = inferred.did]
                           /\ Goto(p, "makedirs")
               ELSE /\ die(p, "'" \o arg \o "' is not a valid DID folder name")
                    /\ UNCHANGED <<did, folder_name>>
           ELSE /\ die(p, "Usage")
                /\ UNCHANGED <<did, folder_name>>
    /\ UNCHANGED <<envVars, fsVars, gitVars, argv, private_key, document, histVars,
                   pureVars>>

\* line 261: os.makedirs(folder_name, exist_ok=True); an OSError is not caught
MakeDirs(p) ==
    /\ pc[p] = "makedirs"
    /\ \E ok \in BOOLEAN :
          IF ok
          THEN /\ dirs' = dirs \cup {folder_name[p]}
               /\ events' = [events EXCEPT ![p] = @ \cup {"dir_created"}]
               /\ Goto(p, "exists")
          ELSE /\ Uncaught(p, "OSError")
               /\ UNCHANGED <<dirs, events>>
    /\ UNCHANGED <<envVars, keyfile, docfile, gitVars, runVars, existed, keyWrites,
                   committed, headAtDiff, keyfileAtStart, docfileAtStart, runNo, runs,
                   keyChanges, persisted, persistedRun, built, lastWriter, pureVars>>

(***************************************************************************)
(* load_or_generate_private_key (lines 142-179).                           *)
(***************************************************************************)
\* the check left out: every run takes the generation branch
path_exists_never(file) == FALSE

\* key_path.exists() (line 152)
path_exists(file) == file.exists

CheckExists(p) ==
    /\ pc[p] = "exists"
    /\ existed' = [existed EXCEPT ![p] = path_exists(keyfile[folder_name[p]])]
    /\ Goto(p, IF path_exists(keyfile[folder_name[p]]) THEN "load" ELSE "generate")
    /\ UNCHANGED <<envVars, fsVars, gitVars, runVars, events, keyWrites, committed,
                   headAtDiff, keyfileAtStart, docfileAtStart, runNo, runs, keyChanges,
                   persisted, persistedRun, built, lastWriter, pureVars>>

\* lines 154-163: the try block on the bytes read.  The result is the key
\* returned and the diagnostics printed; die() inside the block raises
\* SystemExit, which the handler of line 162 sees like any other exception
load_branch(data) ==
    LET parsed == load_pem_private_key(data)
        not_ec == ~IsExc(parsed) /\ parsed.kty # "EC"
        raised == IF IsExc(parsed) THEN parsed.exc
                  ELSE IF not_ec THEN "SystemExit" ELSE "none"
        printed == IF not_ec THEN <<"Error: Only elliptic curve keys are supported">>
                   ELSE <<>>
    IN  IF raised = "none" THEN [key |-> parsed, stderr |-> <<>>]
        ELSE IF ExceptException(raised)
        THEN [key |-> NoKey, stderr |-> printed \o <<"Error: Could not load private key: " \o raised>>]
        ELSE [key |-> NoKey, stderr |-> printed]

LoadKey(p) ==
    /\ pc[p] = "load"
    /\ LET r == load_branch(keyfile[folder_name[p]].data)
       IN  /\ events' = [events EXCEPT ![p] = @ \cup {"key_read"}]
           /\ IF r.key = NoKey
              THEN Exit(p, 1, r.stderr) /\ UNCHANGED private_key
              ELSE /\ private_key' = [private_key EXCEPT ![p] = r.key]
                   /\ Goto(p, "build")
    /\ UNCHANGED <<envVars, fsVars, gitVars, argv, folder_name, did, document, existed,
                   keyWrites, committed, headAtDiff, keyfileAtStart, docfileAtStart,
                   runNo, runs, keyChanges, persisted, persistedRun, built, lastWriter,
                   pureVars>>

\* lines 165-166
GenerateKey(p) ==
    /\ pc[p] = "generate"
    /\ \E k \in GeneratedKeys : private_key' = [private_key EXCEPT ![p] = k]
    /\ events' = [events EXCEPT ![p] = @ \cup {"key_generated"}]
    /\ Goto(p, "write_key")
    /\ UNCHANGED <<envVars, fsVars, gitVars, argv, folder_name, did, document, existed,
                   keyWrites, committed, headAtDiff, keyfileAtStart, docfileAtStart,
                   runNo, runs, keyChanges, persisted, persistedRun, built, lastWriter,
                   pureVars>>

\* exclusive creation (mode "xb"): an existing file is left as it is
write_bytes_exclusive(file, data, outcome) ==
    IF file.exists \/ outcome = "refused" THEN file
    ELSE IF outcome = "truncated" THEN File(SubSeq(data, 1, 2))
    ELSE File(data)

\* what key_path.write_bytes(data) leaves at the path: the data, nothing new
\* (the open failed), or a truncated file (the write failed)
write_bytes(file, data, outcome) ==
    IF outcome = "written" THEN File(data)
    ELSE IF outcome = "truncated" THEN File(SubSeq(data, 1, 2))
    ELSE file

\* lines 168-179
WriteKey(p) ==
    /\ pc[p] = "write_key"
    /\ LET f == folder_name[p]
       IN \E outcome \in {"written", "refused", "truncated"} :
          LET after == write_bytes(keyfile[f], private_bytes(private_key[p]), outcome)
          IN  /\ keyfile' = [keyfile EXCEPT ![f] = after]
              /\ keyWrites' = [keyWrites EXCEPT ![p] = @ + 1]
              /\ events' = [events EXCEPT ![p] = @ \cup {"key_written"}]
              /\ keyChanges' = [keyChanges EXCEPT ![f] = IF after = keyfile[f] THEN @ ELSE @ + 1]
              /\ lastWriter' = [lastWriter EXCEPT ![f] = IF outcome = "refused" THEN @ ELSE p]
              /\ IF outcome = "written"
                 THEN /\ persisted' = [persisted EXCEPT ![f] = private_key[p]]
                      /\ persistedRun' = [persistedRun EXCEPT ![f] = runNo[p]]
                      /\ Goto(p, "build")
                 ELSE /\ die(p, "Could not write private key: OSError")
                      /\ UNCHANGED <<persisted, persistedRun>>
    /\ UNCHANGED <<envVars, docfile, dirs, gitVars, runVars, existed, committed,
                   headAtDiff, keyfileAtStart, docfileAtStart, runNo, runs, built,
                   pureVars>>

\* lines 273-280: the public key, the key id, the document; a KeyError of
\* the curve tables is not caught
BuildDocument(p) ==
    /\ pc[p] = "build"
    /\ LET public_key == public_key_of(private_key[p])
           doc == create_did_document(did[p], public_key)
       IN  IF IsExc(doc)
           THEN /\ Uncaught(p, doc.exc)
                /\ events' = [events EXCEPT ![p] = @ \cup {"fingerprint"}]
                /\ UNCHANGED document
           ELSE /\ document' = [document EXCEPT ![p] = doc]
                /\ events' = [events EXCEPT ![p] = @ \cup {"fingerprint", "jwk"}]
                /\ Goto(p, "open_doc")
    /\ UNCHANGED <<envVars, fsVars, gitVars, argv, folder_name, did, private_key,
                   existed, keyWrites, committed, headAtDiff, keyfileAtStart,
                   docfileAtStart, runNo, runs, keyChanges, persisted, persistedRun,
                   built, lastWriter, pureVars>>

(***************************************************************************)
(* save_and_commit_did_document (lines 213-243).  Every failure inside     *)
(* the try block ends in die() from one of the two handlers.               *)
(***************************************************************************)
\* line 222: open(did_path, "w") creates the file or truncates it
OpenDocument(p) ==
    /\ pc[p] = "open_doc"
    /\ LET f == folder_name[p]
       IN \E ok \in BOOLEAN :
          IF ok
          THEN /\ docfile' = [docfile EXCEPT ![f] = File(<<>>)]
               /\ events' = [events EXCEPT ![p] = @ \cup {"doc_opened"}]
               /\ Goto(p, "dump")
          ELSE /\ die(p, "Could not save DID document: OSError")
               /\ UNCHANGED <<docfile, events>>
    /\ UNCHANGED <<envVars, keyfile, dirs, gitVars, runVars, existed, keyWrites,
                   committed, headAtDiff, keyfileAtStart, docfileAtStart, runNo, runs,
                   keyChanges, persisted, persistedRun, built, lastWriter, pureVars>>

\* what json.dump has put in the file when it stops after `written` lines
json_dump(doc, written) == File(SubSeq(JsonDump(doc), 1, written))

\* line 223 and the close of the with block: all the lines, or an OSError
\* after some of them
DumpDocument(p) ==
    /\ pc[p] = "dump"
    /\ LET f == folder_name[p]
           n == Len(JsonDump(document[p]))
       IN \E written \in (0..MaxPartialLines) \cup {n} :
          /\ docfile' = [docfile EXCEPT ![f] = json_dump(document[p], written)]
          /\ events' = [events EXCEPT ![p] = @ \cup {"doc_written"}]
          /\ IF written = n
             THEN Goto(p, "git_add")
             ELSE die(p, "Could not save DID document: OSError")
    /\ UNCHANGED <<envVars, keyfile, dirs, gitVars, runVars, existed, keyWrites,
                   committed, headAtDiff, keyfileAtStart, docfileAtStart, runNo, runs,
                   keyChanges, persisted, persistedRun, built, lastWriter, pureVars>>

\* line 225: git add did_path, check=True.  It fails outside a repository;
\* what it stages is read by no later step (git diff-index and git commit
\* are given the path and take the working file)
GitAdd(p) ==
    /\ pc[p] = "git_add"
    /\ IF git_remote.is_repo
       THEN Goto(p, "git_diff")
       ELSE die(p, "Git operation failed: CalledProcessError")
    /\ UNCHANGED <<envVars, fsVars, gitVars, runVars, histVars, pureVars>>

\* the return code not looked at: the commit always runs
git_diff_index_always(committed_file, working_file) == 1

\* git diff-index --quiet HEAD did_path: 0 when the file is as in HEAD
git_diff_index(committed_file, working_file) ==
    IF committed_file = working_file THEN 0 ELSE 1

\* lines 228-233
GitDiffIndex(p) ==
    /\ pc[p] = "git_diff"
    /\ LET f == folder_name[p]
           returncode == git_diff_index(head[f], docfile[f])
       IN  /\ headAtDiff' = [headAtDiff EXCEPT ![p] = head[f]]
           /\ Goto(p, IF returncode # 0 THEN "git_commit" ELSE "finish")
    /\ UNCHANGED <<envVars, fsVars, gitVars, runVars, existed, events, keyWrites,
                   committed, keyfileAtStart, docfileAtStart, runNo, runs, keyChanges,
                   persisted, persistedRun, built, lastWriter, pureVars>>

\* lines 234-238: git commit --quiet --allow-empty did_path, check=True
GitCommit(p) ==
    /\ pc[p] = "git_commit"
    /\ LET f == folder_name[p]
       IN \E ok \in BOOLEAN :
          IF ok
          THEN /\ head' = [head EXCEPT ![f] = docfile[f]]
               /\ committed' = [committed EXCEPT ![p] = TRUE]
               /\ Goto(p, "finish")
          ELSE /\ die(p, "Git operation failed: CalledProcessError")
               /\ UNCHANGED <<head, committed>>
    /\ UNCHANGED <<envVars, fsVars, runVars, existed, events, keyWrites, headAtDiff,
                   keyfileAtStart, docfileAtStart, runNo, runs, keyChanges, persisted,
                   persistedRun, built, lastWriter, pureVars>>

\* lines 283-287: the completion messages, exit status 0
Finish(p) ==
    /\ pc[p] = "finish"
    /\ Exit(p, 0, <<>>)
    /\ built' = built \cup {[folder |-> folder_name[p], did |-> did[p],
                             document |-> document[p]]}
    /\ UNCHANGED <<envVars, fsVars, gitVars, runVars, existed, events, keyWrites,
                   committed, headAtDiff, keyfileAtStart, docfileAtStart, runNo, runs,
                   keyChanges, persisted, persistedRun, lastWriter, pureVars>>

Step(p) ==
    \/ ParseArgs(p)
    \/ MakeDirs(p)
    \/ CheckExists(p)
    \/ LoadKey(p)
    \/ GenerateKey(p)
    \/ WriteKey(p)
    \/ BuildDocument(p)
    \/ OpenDocument(p)
    \/ DumpDocument(p)
    \/ GitAdd(p)
    \/ GitDiffIndex(p)
    \/ GitCommit(p)
    \/ Finish(p)

(***************************************************************************)
(* Spec: the same command line is run MaxRuns times in one directory, one  *)
(* run after the other.                                                    *)
(***************************************************************************)
Next == SeqStart(1) \/ Step(1)

Spec == Init /\ [][Next]_vars

(***************************************************************************)
(* ConcSpec: two runs started in the same directory at the same time.      *)
(***************************************************************************)
ConcArgvs == { <<>>, <<"keys">> }

ConcInit ==
    /\ git_remote \in {UserSite, NotARepository}
    /\ command = <<>>
    /\ \E k \in {NoFile, File(private_bytes([kty |-> "EC", key_size |-> 384, d |-> 7]))} :
          keyfile = [f \in Folders |-> IF f = "" THEN k ELSE NoFile]
    /\ docfile = [f \in Folders |-> NoFile]
    /\ head = [f \in Folders |-> NoFile]
    /\ dirs = {}
    /\ RunsIdle
    /\ PureIdle

ConcStart(p) ==
    /\ pc[p] = "idle"
    /\ \E a \in ConcArgvs : Start(p, a)

ConcNext == \E p \in Procs : ConcStart(p) \/ Step(p)

ConcSpec == ConcInit /\ [][ConcNext]_vars

(***************************************************************************)
(* PureSpec: convert_key_to_jwk and create_did_document applied to every   *)
(* key and DID of a bounded set.                                           *)
(***************************************************************************)
\* coordinates up to 256^MaxCoordBytes
MaxCoordBytes == 2

CoordValues == {0} \cup {256 ^ k - 1 : k \in 1..MaxCoordBytes} \cup {256 ^ k : k \in 1..MaxCoordBytes}

PureKeys == [kty : {"EC"}, key_size : LibraryCurves, x : CoordValues, y : CoordValues]

PureDids == {"did:web:example.github.io", "did:web:alice.github.io:site:keys"}

PureOptions == { [k \in {} |-> ""], [kid |-> "#0", alg |-> "ES256"] }

PureInit ==
    /\ git_remote = NotARepository
    /\ command = <<>>
    /\ keyfile = [f \in Folders |-> NoFile]
    /\ docfile = [f \in Folders |-> NoFile]
    /\ head = [f \in Folders |-> NoFile]
    /\ dirs = {}
    /\ RunsIdle
    /\ in_key \in PureKeys
    /\ in_did \in PureDids
    /\ out_jwk = NoResult
    /\ out_doc = NoResult
    /\ pure_pc = "input"

PureEncode ==
    /\ pure_pc = "input"
    /\ \E options \in PureOptions : out_jwk' = convert_key_to_jwk(in_key, options)
    /\ pure_pc' = "encoded"
    /\ UNCHANGED <<envVars, fsVars, gitVars, runVars, endVars, histVars, in_key, in_did,
                   out_doc>>

PureBuild ==
    /\ pure_pc = "encoded"
    /\ out_doc' = create_did_document(in_did, in_key)
    /\ pure_pc' = "built"
    /\ UNCHANGED <<envVars, fsVars, gitVars, runVars, endVars, histVars, in_key, in_did,
                   out_jwk>>

PureNext == PureEncode \/ PureBuild

PureSpec == PureInit /\ [][PureNext]_vars

(***************************************************************************)
(* Helpers of the properties.                                              *)
(***************************************************************************)
RegisteredSizes == {256, 384, 521}

\* the folder grammar of the specification: \.[A-Za-z0-9_-]+ or [A-Za-z0-9_-]+
FolderGrammar(s) ==
    LET body == IF Len(s) >= 1 /\ Head(s) = "." THEN Tail(s) ELSE s
    IN  /\ Len(body) >= 1
        /\ \A i \in 1..Len(body) : SubSeq(body, i, i) \in WordChars

\* the run was given one argument that is neither a DID nor a folder name
RejectedArgument(p) ==
    /\ pc[p] # "idle"
    /\ Len(argv[p]) = 1
    /\ ~startswith(argv[p][1], "did:web:")
    /\ ~FolderGrammar(argv[p][1])

\* the first character of a line after its indentation
FirstInk(line) ==
    LET inks == {i \in 1..Len(line) : SubSeq(line, i, i) # " "}
    IN  IF inks = {} THEN ""
        ELSE LET i == CHOOSE j \in inks : \A k \in inks : j <= k
             IN  SubSeq(line, i, i)

LastInk(line) == IF Len(line) = 0 THEN "" ELSE SubSeq(line, Len(line), Len(line))

\* a file of json.dump's lines in which every object and list is closed
IsCompleteJson(file) ==
    /\ file.exists
    /\ Len(file.data) >= 1
    /\ Cardinality({i \in 1..Len(file.data) : LastInk(file.data[i]) \in {"{", "["}})
         = Cardinality({i \in 1..Len(file.data) : FirstInk(file.data[i]) \in {"}", "]"}})

\* the key file of the run's folder parses as a private key that is not EC
NonEcKeyFile(p) ==
    /\ keyfile[folder_name[p]].exists
    /\ LET k == load_pem_private_key(keyfile[folder_name[p]].data)
       IN  ~IsExc(k) /\ k.kty # "EC"

\* base64.urlsafe_b64decode
B64Value(c) == IF c = "=" THEN 0 ELSE CHOOSE i \in 0..63 : B64Char(i) = c

urlsafe_b64decode(s) ==
    LET n   == Len(s)
        pad == IF n >= 2 /\ SubSeq(s, n - 1, n) = "==" THEN 2
               ELSE IF n >= 1 /\ SubSeq(s, n, n) = "=" THEN 1 ELSE 0
        v(i) == B64Value(SubSeq(s, i, i))
    IN  [j \in 1..((n \div 4) * 3 - pad) |->
            LET g == 4 * ((j - 1) \div 3)
                r == (j - 1) % 3
            IN  IF r = 0 THEN v(g + 1) * 4 + v(g + 2) \div 16
                ELSE IF r = 1 THEN (v(g + 2) % 16) * 16 + v(g + 3) \div 4
                ELSE (v(g + 3) % 4) * 64 + v(g + 4)]

\* ceil(b/8) for the three registered sizes
CoordinateBytes == (256 :> 32) @@ (384 :> 48) @@ (521 :> 66)

\* the run has entered load_or_generate_private_key and taken a branch
TookKeyBranch(p) ==
    \/ pc[p] \in {"load", "generate", "write_key"}
    \/ events[p] \cap {"key_read", "key_generated"} # {}

(***************************************************************************)
(* C1.  A run whose single argument is neither a did:web: DID nor a valid  *)
(* folder name ends with status 1 in its first step: it reads, generates   *)
(* and writes no key, creates no directory and writes no document.         *)
(***************************************************************************)
C1_InvalidFolderRejectedFirst ==
    \A p \in Procs :
        RejectedArgument(p) =>
            /\ pc[p] \in {"main", "exited"}
            /\ events[p] = {}
            /\ keyfile = keyfileAtStart[p]
            /\ docfile = docfileAtStart[p]
            /\ pc[p] = "exited" =>
                  /\ exit_status[p] = 1
                  /\ stderr[p] = <<"Error: '" \o argv[p][1] \o "' is not a valid DID folder name">>

C1_Witness ==
    \E p \in Procs :
        /\ RejectedArgument(p)
        /\ argv[p] = <<"a/b">>
        /\ pc[p] = "exited"
        /\ exit_status[p] = 1

(***************************************************************************)
(* C2.  In a sequence of runs, a run calls write_bytes on the key file at  *)
(* most once and only when no file was at the path when the run started;   *)
(* a key file that exists when a run starts is never changed by it; the    *)
(* content of a key file changes at most once over the whole sequence.     *)
(***************************************************************************)
C2_KeyFileWrittenOnlyWhenAbsent ==
    /\ \A p \in Procs :
          pc[p] # "idle" =>
              /\ keyWrites[p] <= 1
              /\ keyWrites[p] = 1 => ~keyfileAtStart[p][folder_name[p]].exists
              /\ \A f \in Folders :
                    keyfileAtStart[p][f].exists => keyfile[f] = keyfileAtStart[p][f]
    /\ \A f \in Folders : keyChanges[f] <= 1

C2_Witness ==
    \E p \in Procs :
        /\ runNo[p] = 2
        /\ pc[p] = "exited"
        /\ exit_status[p] = 0
        /\ existed[p]
        /\ keyChanges[folder_name[p]] = 1
        /\ persistedRun[folder_name[p]] = 1

(***************************************************************************)
(* C3.  A run that ends in an error exits with a non-zero status, and the  *)
(* document file is then what it was before the run or a complete          *)
(* serialized document, never a truncated one.                             *)
(***************************************************************************)
C3_NoPartialDocument ==
    \A p \in Procs :
        (pc[p] = "exited" /\ exit_status[p] # 0) =>
            /\ exit_status[p] > 0
            /\ \A f \in Folders :
                  docfile[f] = docfileAtStart[p][f] \/ IsCompleteJson(docfile[f])

(***************************************************************************)
(* C4.  When the key file parses as a private key that is not EC, the run  *)
(* that read it has exited with status 1, has printed "Only elliptic       *)
(* curve keys are supported" and nothing else, and has generated no key,   *)
(* written no key file, computed no fingerprint or JWK and written no      *)
(* document.                                                               *)
(***************************************************************************)
C4_NonEcKeyIsFatalOnce ==
    \A p \in Procs :
        ("key_read" \in events[p] /\ NonEcKeyFile(p)) =>
            /\ pc[p] = "exited"
            /\ exit_status[p] = 1
            /\ stderr[p] = <<"Error: Only elliptic curve keys are supported">>
            /\ events[p] \cap {"key_generated", "key_written", "fingerprint", "jwk",
                               "doc_opened", "doc_written"} = {}
            /\ private_key[p] = NoKey
            /\ document[p] = NoDocument
            /\ keyWrites[p] = 0

C4_Witness ==
    \E p \in Procs :
        /\ "key_read" \in events[p]
        /\ NonEcKeyFile(p)
        /\ pc[p] = "exited"

(***************************************************************************)
(* C5.  Once a run has generated a key K and written it, every later run   *)
(* on the same path finds the file, takes the load branch, and loads a     *)
(* key: when load_or_generate_private_key has returned (the run is about   *)
(* to build its document) the public-key fingerprint of the key it         *)
(* returned is that of K.                                                  *)
(***************************************************************************)
C5_ReloadedKeyHasSameFingerprint ==
    \A p \in Procs :
        LET f == folder_name[p]
        IN  (TookKeyBranch(p) /\ persisted[f] # NoKey /\ runNo[p] > persistedRun[f]) =>
                /\ existed[p]
                /\ pc[p] \notin {"generate", "write_key"}
                /\ "key_generated" \notin events[p]
                /\ "key_read" \in events[p] => private_key[p] # NoKey
                /\ pc[p] = "build" =>
                      generate_key_fingerprint(public_key_of(private_key[p]))
                         = generate_key_fingerprint(public_key_of(persisted[f]))

C5_Witness ==
    \E p \in Procs :
        /\ persisted[folder_name[p]] # NoKey
        /\ runNo[p] > persistedRun[folder_name[p]]
        /\ "key_read" \in events[p]
        /\ pc[p] = "build"
        /\ private_key[p] = persisted[folder_name[p]]

(***************************************************************************)
(* C6.  A run builds the same document as every earlier successful run     *)
(* with the same folder and DID, and a run commits only when the document  *)
(* it wrote differs from the version in HEAD; a repeated run with nothing  *)
(* changed commits nothing.                                                *)
(***************************************************************************)
C6_SameDocumentNoCommit ==
    /\ \A p \in Procs : \A rec \in built :
          (document[p] # NoDocument /\ rec.folder = folder_name[p] /\ rec.did = did[p])
              => document[p] = rec.document
    /\ \A p \in Procs :
          committed[p] => headAtDiff[p] # File(JsonDump(document[p]))

C6_Witness ==
    \E p \in Procs :
        /\ runNo[p] = 2
        /\ pc[p] = "exited"
        /\ exit_status[p] = 0
        /\ ~committed[p]
        /\ [folder |-> folder_name[p], did |-> did[p], document |-> document[p]] \in built
        /\ head[folder_name[p]] = File(JsonDump(document[p]))

(***************************************************************************)
(* C7.  For a key on a registered curve create_did_document returns a      *)
(* document with exactly one verification method, whose id is the DID      *)
(* followed by the JWK's kid, the kid being "#" followed by the key's      *)
(* fingerprint; the document's id and the controller are the DID.          *)
(***************************************************************************)
C7_IdFragmentMatchesKid ==
    pure_pc = "built" =>
        /\ in_key.key_size \in RegisteredSizes => ~IsExc(out_doc)
        /\ ~IsExc(out_doc) =>
              /\ out_doc.id = in_did
              /\ Len(out_doc.assertionMethod) = 1
              /\ LET vm == out_doc.assertionMethod[1]
                 IN  /\ vm.id = in_did \o vm.publicKeyJwk.kid
                     /\ vm.publicKeyJwk.kid = "#" \o generate_key_fingerprint(in_key)
                     /\ vm.controller = in_did

C7_Witness ==
    /\ pure_pc = "built"
    /\ in_key.key_size = 521
    /\ ~IsExc(out_doc)
    /\ in_did = "did:web:alice.github.io:site:keys"

(***************************************************************************)
(* C8.  The two curve tables have the domain {256, 384, 521} and the       *)
(* names and algorithms of the specification; for a key of any other bit   *)
(* size convert_key_to_jwk and create_did_document return an error, never  *)
(* a JWK or a document.                                                    *)
(***************************************************************************)
C8_UnregisteredCurveIsAnError ==
    /\ DOMAIN EC_CURVE_NAMES = RegisteredSizes
    /\ DOMAIN SIGNING_ALGORITHMS = DOMAIN EC_CURVE_NAMES
    /\ EC_CURVE_NAMES[256] = "P-256" /\ SIGNING_ALGORITHMS[256] = "ES256"
    /\ EC_CURVE_NAMES[384] = "P-384" /\ SIGNING_ALGORITHMS[384] = "ES384"
    /\ EC_CURVE_NAMES[521] = "P-521" /\ SIGNING_ALGORITHMS[521] = "ES512"
    /\ (pure_pc \in {"encoded", "built"} /\ in_key.key_size \notin RegisteredSizes)
          => IsExc(out_jwk)
    /\ (pure_pc = "built" /\ in_key.key_size \notin RegisteredSizes)
          => IsExc(out_doc)

C8_Witness ==
    /\ pure_pc = "built"
    /\ in_key.key_size = 224
    /\ IsExc(out_jwk)
    /\ IsExc(out_doc)

(***************************************************************************)
(* C9.  For a key on a registered curve of b bits, the x and y of the JWK  *)
(* decode to byte strings of exactly ceil(b/8) bytes (32, 48, 66) whose    *)
(* big-endian value is the coordinate, also when the coordinate needs      *)
(* fewer bytes.                                                            *)
(***************************************************************************)
C9_CoordinatesHaveFixedLength ==
    (pure_pc \in {"encoded", "built"} /\ in_key.key_size \in RegisteredSizes) =>
        /\ ~IsExc(out_jwk)
        /\ LET x_bytes == urlsafe_b64decode(out_jwk.x)
               y_bytes == urlsafe_b64decode(out_jwk.y)
               n == CoordinateBytes[in_key.key_size]
           IN  /\ Len(x_bytes) = n
               /\ Len(y_bytes) = n
               /\ FromBigEndian(x_bytes, 1, n) = in_key.x
               /\ FromBigEndian(y_bytes, 1, n) = in_key.y

C9_Witness ==
    /\ pure_pc = "encoded"
    /\ in_key.key_size = 521
    /\ in_key.x = 255
    /\ in_key.y = 256
    /\ ~IsExc(out_jwk)
    /\ Len(urlsafe_b64decode(out_jwk.x)) = 66

(***************************************************************************)
(* C10.  With two runs at once, a run writes the key file only after       *)
(* seeing none, and the file holds the bytes of the run whose write came   *)
(* last, whatever was written in between: both runs can see no file, and   *)
(* the earlier writer then builds its document from a key that is not the  *)
(* one left in the file.                                                   *)
(***************************************************************************)
C10_LastWriteWins ==
    /\ \A p \in Procs : keyWrites[p] > 0 => ~existed[p]
    /\ \A f \in Folders :
          lastWriter[f] # 0 =>
              LET written == private_bytes(private_key[lastWriter[f]])
              IN  /\ keyfile[f].exists
                  /\ keyfile[f].data = SubSeq(written, 1, Len(keyfile[f].data))

C10_RaceWitness ==
    \E p, q \in Procs :
        /\ p # q
        /\ folder_name[p] = folder_name[q]
        /\ ~existed[p] /\ ~existed[q]
        /\ keyWrites[p] = 1 /\ keyWrites[q] = 1
        /\ private_key[p] # private_key[q]
        /\ keyfile[folder_name[p]] = File(private_bytes(private_key[q]))
        /\ pc[p] = "exited" /\ exit_status[p] = 0
        /\ document[p] # NoDocument
        /\ document[p].assertionMethod[1].publicKeyJwk.kid
             # "#" \o generate_key_fingerprint(
                        public_key_of(load_pem_private_key(keyfile[folder_name[p]].data)))

=============================================================================
